---- MODULE Spec2Model ----
(***************************************************************************)
(* Model of unbabel_cli.py: a command-line program that reads a JSON list  *)
(* of (timestamp, duration) events and writes, for every whole minute from *)
(* the earliest event's minute to the minute after the latest event's, the *)
(* mean duration of the events in the trailing window of window_size       *)
(* minutes.                                                                *)
(*                                                                         *)
(* A datetime is modelled as the number of microseconds since              *)
(* 2023-01-01 00:00:00.000000.  A timestamp string is modelled by its      *)
(* minute, second and microsecond fields plus whether strptime accepts it. *)
(* A Python number is modelled as [kind, num, den]: an int n is            *)
(* ["int", n, 1]; the float produced by the true division s / n is the     *)
(* reduced fraction ["float", s/g, n/g] (durations are small JSON          *)
(* integers, for which the division is the exact rational rounded once).   *)
(*                                                                         *)
(* Line 94 calls .is_integer() on average_delivery_time, which is the int  *)
(* 0 whenever the window is empty.  int.is_integer exists from Python 3.12 *)
(* on (it returns True); the model is of the program on such an            *)
(* interpreter, the only ones on which an empty window can be emitted.     *)
(***************************************************************************)
EXTENDS Integers, Sequences, FiniteSets

(* ---- bounds of the model ---- *)
MaxEvents == 2
MaxMinute == 2
MaxWindow == 2

(* ---- units of datetime / timedelta ---- *)
MicrosPerSecond == 1000000
MicrosPerMinute == 60000000

(* The events a minute of the input may hold, <<second, microsecond, duration>>:
   on the minute, one microsecond after it, mid-minute, one microsecond before
   the next minute. *)
EventsPerMinute ==
  {<<0, 0, 10>>, <<0, 0, 5>>, <<0, 1, 20>>, <<30, 0, 10>>, <<30, 0, 20>>, <<59, 999999, 5>>}

(* A timestamp string without the fractional part: strptime rejects it. *)
MalformedTimestamp == [wf |-> FALSE, mi |-> 0, s |-> 0, us |-> 0]

RawEvents ==
  {[timestamp |-> [wf |-> TRUE, mi |-> m, s |-> p[1], us |-> p[2]], duration |-> p[3]] :
     m \in 0..MaxMinute, p \in EventsPerMinute}
    \cup {[timestamp |-> MalformedTimestamp, duration |-> 10]}

InputFiles == UNION {[1..n -> RawEvents] : n \in 0..MaxEvents}

(* The content of the output file before the run. *)
OldOutput == <<[date |-> <<0, 0>>, average_delivery_time |-> [kind |-> "int", num |-> 99, den |-> 1]]>>

VARIABLES
  window_size,               \* args.window_size
  input_exists,              \* os.path.isfile(args.input_file)
  input_file,                \* content of the input file: a JSON array of events
  output_file,               \* content of the output file
  pc,                        \* position in main
  calls,                     \* what main has done so far, in order
  exit_code,                 \* process exit status, -1 while running
  raised,                    \* the exception that ended the run, "" if none
  message,                   \* the event named by the parse error, <<>> if none
  events_data,               \* main: json.load(file)
  events,                    \* main: parse_events(events_data)
  earliest_timestamp,        \* calculate_moving_average locals
  latest_timestamp,
  current_events_in_window,
  average_delivery_time,
  moving_averages

vars == <<window_size, input_exists, input_file, output_file, pc, calls, exit_code,
          raised, message, events_data, events, earliest_timestamp, latest_timestamp,
          current_events_in_window, average_delivery_time, moving_averages>>

(* ---------------- Python numbers ---------------- *)
RECURSIVE gcd(_, _)
gcd(a, b) == IF b = 0 THEN a ELSE gcd(b, a % b)

py_int(n) == [kind |-> "int", num |-> n, den |-> 1]

(* s / n, true division of two ints, n > 0, s >= 0. *)
true_div(s, n) ==
  LET g == gcd(s, n) IN [kind |-> "float", num |-> s \div g, den |-> n \div g]

(* float.is_integer, and int.is_integer (Python 3.12). *)
is_integer(v) == IF v.kind = "int" THEN TRUE ELSE v.num % v.den = 0

(* int(v) *)
to_int(v) == py_int(v.num \div v.den)

(* ---------------- datetime ---------------- *)
(* datetime.strptime(s, "%Y-%m-%d %H:%M:%S.%f") *)
strptime_ok(s) == s.wf
strptime(s) == s.mi * MicrosPerMinute + s.s * MicrosPerSecond + s.us

(* dt.replace(second=0, microsecond=0) *)
(* Variant: only the microseconds are zeroed. *)
floor_to_minute_mut(dt) == dt - (dt % MicrosPerSecond)
floor_to_minute(dt) == dt - (dt % MicrosPerMinute)

(* dt.strftime("%Y-%m-%d %H:%M:%S"): <<minute, second>>, the microseconds dropped. *)
strftime(dt) == <<dt \div MicrosPerMinute, (dt % MicrosPerMinute) \div MicrosPerSecond>>

(* ---------------- parse_arguments ---------------- *)
(* Variant: a window size of 0 is let through. *)
args_valid_mut(w, exists) == ~(w < 0) /\ exists
args_valid(w, exists) == ~(w <= 0) /\ exists

(* ---------------- parse_events ---------------- *)
(* Variant: a record strptime rejects is skipped instead of raising. *)
RECURSIVE parse_loop_mut(_, _, _)
parse_loop_mut(evs, i, parsed_events) ==
  IF i > Len(evs) THEN [raised |-> FALSE, value |-> parsed_events, offender |-> <<>>]
  ELSE IF ~strptime_ok(evs[i].timestamp)
       THEN parse_loop_mut(evs, i + 1, parsed_events)
       ELSE parse_loop_mut(evs, i + 1,
              Append(parsed_events, [timestamp |-> strptime(evs[i].timestamp),
                                     duration |-> evs[i].duration]))

RECURSIVE parse_loop(_, _, _)
parse_loop(evs, i, parsed_events) ==
  IF i > Len(evs) THEN [raised |-> FALSE, value |-> parsed_events, offender |-> <<>>]
  ELSE IF ~strptime_ok(evs[i].timestamp)
       THEN [raised |-> TRUE, value |-> <<>>, offender |-> <<evs[i]>>]
       ELSE parse_loop(evs, i + 1,
              Append(parsed_events, [timestamp |-> strptime(evs[i].timestamp),
                                     duration |-> evs[i].duration]))

parse_events_mut(evs) == parse_loop_mut(evs, 1, <<>>)
parse_events(evs) == parse_loop(evs, 1, <<>>)

(* ---------------- calculate_moving_average ---------------- *)
timestamps_of(evs) == {evs[i].timestamp : i \in DOMAIN evs}
min_timestamp(evs) == CHOOSE x \in timestamps_of(evs) : \A y \in timestamps_of(evs) : x <= y
max_timestamp(evs) == CHOOSE x \in timestamps_of(evs) : \A y \in timestamps_of(evs) : y <= x

(* Variant: the first event is taken for the earliest. *)
earliest_of_mut(evs) == floor_to_minute(evs[1].timestamp)
earliest_of(evs) == floor_to_minute(min_timestamp(evs))

(* Variant: the latest timestamp is not advanced by a minute. *)
latest_of_mut(evs) == floor_to_minute(max_timestamp(evs))
latest_of(evs) == floor_to_minute(max_timestamp(evs)) + MicrosPerMinute

(* Variant: the window excludes its start. *)
in_window_mut(e, window_start, t) == window_start < e.timestamp /\ e.timestamp <= t
in_window(e, window_start, t) == window_start <= e.timestamp /\ e.timestamp <= t

(* Variant: the window excludes its end. *)
filter_events_mut(evs, window_start, t) ==
  SelectSeq(evs, LAMBDA e : window_start <= e.timestamp /\ e.timestamp < t)
filter_events(evs, window_start, t) ==
  SelectSeq(evs, LAMBDA e : in_window(e, window_start, t))

(* Variant: windows are compared by length only. *)
window_changed_mut(events_in_window, current) == Len(events_in_window) /= Len(current)
window_changed(events_in_window, current) == events_in_window /= current

RECURSIVE sum_durations(_)
sum_durations(evs) ==
  IF evs = <<>> THEN 0 ELSE Head(evs).duration + sum_durations(Tail(evs))

mean_of(evs) == true_div(sum_durations(evs), Len(evs))

(* Variant: the value is emitted as computed. *)
normalize_mut(v) == v
normalize(v) == IF is_integer(v) THEN to_int(v) ELSE v

(* One iteration of the while loop on the locals st. *)
loop_body(st, evs, w) ==
  LET window_start == st.earliest_timestamp - w * MicrosPerMinute
      events_in_window == filter_events(evs, window_start, st.earliest_timestamp)
      changed == window_changed(events_in_window, st.current_events_in_window)
      avg == IF changed
             THEN IF events_in_window /= <<>> THEN mean_of(events_in_window) ELSE py_int(0)
             ELSE st.average_delivery_time
  IN [earliest_timestamp |-> st.earliest_timestamp + MicrosPerMinute,
      latest_timestamp |-> st.latest_timestamp,
      current_events_in_window |->
        IF changed THEN events_in_window ELSE st.current_events_in_window,
      average_delivery_time |-> avg,
      moving_averages |->
        Append(st.moving_averages,
               [date |-> strftime(st.earliest_timestamp),
                average_delivery_time |-> normalize(avg)])]

loop_start(evs) ==
  [earliest_timestamp |-> earliest_of(evs),
   latest_timestamp |-> latest_of(evs),
   current_events_in_window |-> <<>>,
   average_delivery_time |-> py_int(0),
   moving_averages |-> <<>>]

RECURSIVE run_loop(_, _, _)
run_loop(st, evs, w) ==
  IF st.earliest_timestamp <= st.latest_timestamp
  THEN run_loop(loop_body(st, evs, w), evs, w)
  ELSE st.moving_averages

(* The whole function on a non-empty list. *)
calculate_moving_average(evs, w) == run_loop(loop_start(evs), evs, w)

locals ==
  [earliest_timestamp |-> earliest_timestamp,
   latest_timestamp |-> latest_timestamp,
   current_events_in_window |-> current_events_in_window,
   average_delivery_time |-> average_delivery_time,
   moving_averages |-> moving_averages]

(* ---------------- the state machine of main ---------------- *)
Init ==
  /\ window_size \in -1..MaxWindow
  /\ input_exists \in BOOLEAN
  /\ input_file \in (IF input_exists THEN InputFiles ELSE {<<>>})
  /\ output_file = OldOutput
  /\ pc = "parse_arguments"
  /\ calls = <<>>
  /\ exit_code = -1
  /\ raised = ""
  /\ message = <<>>
  /\ events_data = <<>>
  /\ events = <<>>
  /\ earliest_timestamp = 0
  /\ latest_timestamp = 0
  /\ current_events_in_window = <<>>
  /\ average_delivery_time = py_int(0)
  /\ moving_averages = <<>>

calc_unchanged ==
  UNCHANGED <<earliest_timestamp, latest_timestamp, current_events_in_window,
              average_delivery_time, moving_averages>>

env_unchanged == UNCHANGED <<window_size, input_exists, input_file>>

(* main line 101: parse_arguments; parser.error prints the usage and exits 2. *)
ParseArguments ==
  /\ pc = "parse_arguments"
  /\ calls' = Append(calls, "parse_arguments")
  /\ IF args_valid(window_size, input_exists)
     THEN /\ pc' = "read_input"
          /\ UNCHANGED <<exit_code, raised>>
     ELSE /\ pc' = "exited"
          /\ exit_code' = 2
          /\ raised' = "usage"
  /\ env_unchanged /\ calc_unchanged
  /\ UNCHANGED <<output_file, message, events_data, events>>

(* main lines 104-105 *)
ReadInput ==
  /\ pc = "read_input"
  /\ calls' = Append(calls, "open_input")
  /\ events_data' = input_file
  /\ pc' = "parse_events"
  /\ env_unchanged /\ calc_unchanged
  /\ UNCHANGED <<output_file, exit_code, raised, message, events>>

(* main lines 107-111 *)
ParseEvents ==
  /\ pc = "parse_events"
  /\ calls' = Append(calls, "parse_events")
  /\ LET r == parse_events(events_data) IN
       IF r.raised
       THEN /\ message' = r.offender
            /\ raised' = "ValueError: Invalid timestamp format in event"
            /\ exit_code' = 0
            /\ pc' = "exited"
            /\ UNCHANGED events
       ELSE /\ events' = r.value
            /\ pc' = "calculate"
            /\ UNCHANGED <<message, raised, exit_code>>
  /\ env_unchanged /\ calc_unchanged
  /\ UNCHANGED <<output_file, events_data>>

(* main line 113, calculate_moving_average lines 72-78; min() of an empty
   sequence raises ValueError, which nothing catches. *)
CalculateStart ==
  /\ pc = "calculate"
  /\ calls' = Append(calls, "calculate_moving_average")
  /\ IF events = <<>>
     THEN /\ raised' = "ValueError: min() arg is an empty sequence"
          /\ exit_code' = 1
          /\ pc' = "exited"
          /\ calc_unchanged
     ELSE /\ LET st == loop_start(events) IN
               /\ earliest_timestamp' = st.earliest_timestamp
               /\ latest_timestamp' = st.latest_timestamp
               /\ current_events_in_window' = st.current_events_in_window
               /\ average_delivery_time' = st.average_delivery_time
               /\ moving_averages' = st.moving_averages
          /\ pc' = "loop"
          /\ UNCHANGED <<raised, exit_code>>
  /\ env_unchanged
  /\ UNCHANGED <<output_file, message, events_data, events>>

(* calculate_moving_average lines 80-96: one iteration. *)
LoopIteration ==
  /\ pc = "loop"
  /\ earliest_timestamp <= latest_timestamp
  /\ LET st == loop_body(locals, events, window_size) IN
       /\ earliest_timestamp' = st.earliest_timestamp
       /\ latest_timestamp' = st.latest_timestamp
       /\ current_events_in_window' = st.current_events_in_window
       /\ average_delivery_time' = st.average_delivery_time
       /\ moving_averages' = st.moving_averages
  /\ env_unchanged
  /\ UNCHANGED <<output_file, pc, calls, exit_code, raised, message, events_data, events>>

(* calculate_moving_average line 98, main lines 116-117. *)
WriteOutput ==
  /\ pc = "loop"
  /\ ~(earliest_timestamp <= latest_timestamp)
  /\ calls' = Append(calls, "open_output")
  /\ output_file' = moving_averages
  /\ exit_code' = 0
  /\ pc' = "exited"
  /\ env_unchanged /\ calc_unchanged
  /\ UNCHANGED <<raised, message, events_data, events>>

Next ==
  \/ ParseArguments
  \/ ReadInput
  \/ ParseEvents
  \/ CalculateStart
  \/ LoopIteration
  \/ WriteOutput

Spec == Init /\ [][Next]_vars

(* ======================================================================= *)
(* Properties                                                              *)
(* ======================================================================= *)
Called(what) == \E i \in DOMAIN calls : calls[i] = what

(* main wrote the output file and ended. *)
Done == pc = "exited" /\ Called("open_output")

(* The instant a point is dated, read back from its date. *)
PointTime(k) ==
  moving_averages[k].date[1] * MicrosPerMinute + moving_averages[k].date[2] * MicrosPerSecond

PointValue(k) == moving_averages[k].average_delivery_time

(* The events (by index) with t - window_size minutes <= timestamp <= t. *)
InWindowAt(t) ==
  {i \in DOMAIN events :
     /\ t - window_size * MicrosPerMinute <= events[i].timestamp
     /\ events[i].timestamp <= t}

RECURSIVE SumDurations(_)
SumDurations(S) ==
  IF S = {} THEN 0
  ELSE LET i == CHOOSE j \in S : TRUE IN events[i].duration + SumDurations(S \ {i})

MinuteIndex(i) == events[i].timestamp \div MicrosPerMinute
FirstMinute == CHOOSE m \in {MinuteIndex(i) : i \in DOMAIN events} :
                 \A j \in DOMAIN events : m <= MinuteIndex(j)
LastMinute == CHOOSE m \in {MinuteIndex(i) : i \in DOMAIN events} :
                \A j \in DOMAIN events : MinuteIndex(j) <= m

(* C1: every emitted point's value is the arithmetic mean of the durations of
   exactly the events with t - window_size minutes <= timestamp <= t, both
   bounds inclusive, and 0 when there is no such event. *)
C1_WindowMean ==
  \A k \in DOMAIN moving_averages :
    LET S == InWindowAt(PointTime(k))
        v == PointValue(k)
    IN IF S = {} THEN v.num = 0
       ELSE v.num * Cardinality(S) = SumDurations(S) * v.den

(* C1 witness: a finished run with a point at t, one event exactly at
   t - window_size minutes (counted) and one a microsecond after t (not counted). *)
C1_Witness ==
  /\ Done
  /\ \E k \in DOMAIN moving_averages : \E i, j \in DOMAIN events :
       /\ events[i].timestamp = PointTime(k) - window_size * MicrosPerMinute
       /\ events[j].timestamp = PointTime(k) + 1
       /\ InWindowAt(PointTime(k)) = {i}

(* C2: the series has minutesBetween(floor(min), floor(max) + 1 minute) + 1
   points, the first dated floor(min), the last floor(max) + 1 minute, each 60
   seconds after the one before, whether or not a minute holds an event. *)
C2_Density ==
  Done =>
    /\ Len(moving_averages) = (LastMinute + 1 - FirstMinute) + 1
    /\ moving_averages[1].date = <<FirstMinute, 0>>
    /\ moving_averages[Len(moving_averages)].date = <<LastMinute + 1, 0>>
    /\ \A k \in 1..(Len(moving_averages) - 1) :
         PointTime(k + 1) - PointTime(k) = 60 * MicrosPerSecond
    /\ output_file = moving_averages

(* C2 witness: a finished run whose series has a minute with no event in it. *)
C2_Witness ==
  /\ Done
  /\ Len(moving_averages) = 4
  /\ \E k \in DOMAIN moving_averages :
       \A i \in DOMAIN events : MinuteIndex(i) /= moving_averages[k].date[1]

Scenario ==
  <<[timestamp |-> [wf |-> TRUE, mi |-> 0, s |-> 30, us |-> 0], duration |-> 10],
    [timestamp |-> [wf |-> TRUE, mi |-> 1, s |-> 30, us |-> 0], duration |-> 20]>>

ScenarioRun == Done /\ input_file = Scenario /\ window_size = 1

Point(minute, n) == [date |-> <<minute, 0>>, average_delivery_time |-> py_int(n)]

(* C3 as stated: the scenario yields four points, 00:00 -> 0, 00:01 -> 10,
   00:02 -> 20, 00:03 -> 0. *)
C3_Original ==
  ScenarioRun => output_file = <<Point(0, 0), Point(1, 10), Point(2, 20), Point(3, 0)>>

(* C3 amended: the scenario yields three points, 00:00 -> 0, 00:01 -> 10,
   00:02 -> 20; the series ends at the minute after the latest event's minute. *)
C3_Scenario ==
  ScenarioRun => output_file = <<Point(0, 0), Point(1, 10), Point(2, 20)>>

(* C3 witness: the scenario has run to the end. *)
C3_Witness == ScenarioRun /\ Len(output_file) = 3

Malformed(evs) == {i \in DOMAIN evs : ~evs[i].timestamp.wf}

(* C4: once parse_events has met a record whose timestamp strptime rejects,
   the run has ended with the error naming the first such record, no list of
   events was returned, calculate_moving_average was not called and the output
   file was neither opened nor changed. *)
C4_ParseFailure ==
  (Called("parse_events") /\ Malformed(events_data) /= {}) =>
    /\ pc = "exited"
    /\ raised = "ValueError: Invalid timestamp format in event"
    /\ message = <<events_data[CHOOSE i \in Malformed(events_data) :
                                 \A j \in Malformed(events_data) : i <= j]>>
    /\ events = <<>>
    /\ ~Called("calculate_moving_average")
    /\ ~Called("open_output")
    /\ moving_averages = <<>>
    /\ output_file = OldOutput

(* C4 witness: parse_events failed on the second record after parsing the first. *)
C4_Witness ==
  /\ Called("parse_events")
  /\ Len(events_data) = 2
  /\ Malformed(events_data) = {2}
  /\ pc = "exited"

(* C5 as stated: an empty event list is rejected with a dedicated empty-input
   error, before min() or max() is evaluated, and nothing is written. *)
C5_EmptyInputRejected ==
  (pc = "exited" /\ Called("parse_events") /\ events_data = <<>>) =>
    /\ raised = "EmptyInputError"
    /\ output_file = OldOutput

(* C6: with a window size <= 0 or a missing input file the run ends in
   parse_arguments with a usage error and a non-zero exit status, the input
   file unread, parse_events and calculate_moving_average not called, the
   output file not opened; calculate_moving_average only sees window_size >= 1. *)
C6_ArgumentsChecked ==
  /\ (window_size <= 0 \/ ~input_exists) =>
       /\ pc = "parse_arguments" \/ (pc = "exited" /\ raised = "usage" /\ exit_code /= 0)
       /\ ~Called("open_input")
       /\ ~Called("parse_events")
       /\ ~Called("calculate_moving_average")
       /\ ~Called("open_output")
       /\ output_file = OldOutput
  /\ Called("calculate_moving_average") => window_size >= 1

(* C6 witness: a run with window size 0 and an existing input file has ended. *)
C6_Witness == pc = "exited" /\ window_size = 0 /\ input_exists /\ input_file /= <<>>

(* C7: every point's value is an int when its window's mean is whole (0 for an
   empty window), a float equal to the mean otherwise, and has the numeric
   value of the average_delivery_time it was made from. *)
C7_IntegerFormatting ==
  /\ \A k \in DOMAIN moving_averages :
       LET S == InWindowAt(PointTime(k))
           n == Cardinality(S)
           v == PointValue(k)
       IN IF S = {} THEN v = py_int(0)
          ELSE IF SumDurations(S) % n = 0 THEN v = py_int(SumDurations(S) \div n)
          ELSE v.kind = "float" /\ v.num * n = SumDurations(S) * v.den
  /\ moving_averages /= <<>> =>
       PointValue(Len(moving_averages)).num * average_delivery_time.den
         = average_delivery_time.num * PointValue(Len(moving_averages)).den

(* C7 witness: a finished run whose first window is empty, with a later point
   of fractional mean and a later point of whole non-zero mean. *)
C7_Witness ==
  /\ Done
  /\ InWindowAt(PointTime(1)) = {}
  /\ \E k \in DOMAIN moving_averages : PointValue(k).kind = "float"
  /\ \E k \in DOMAIN moving_averages : PointValue(k).kind = "int" /\ PointValue(k).num > 0

(* C8: one event yields two points, dated its minute and the next; the second
   is the event's duration, the first is the duration if the event is exactly
   on the minute and 0 otherwise. *)
C8_SingleEvent ==
  (Done /\ Len(events) = 1) =>
    /\ Len(moving_averages) = 2
    /\ moving_averages[1].date = <<MinuteIndex(1), 0>>
    /\ moving_averages[2].date = <<MinuteIndex(1) + 1, 0>>
    /\ PointValue(2).num = events[1].duration * PointValue(2).den
    /\ PointValue(1).num =
         (IF events[1].timestamp % MicrosPerMinute = 0 THEN events[1].duration ELSE 0)
           * PointValue(1).den

(* C8 witness: a finished run of one event exactly on the minute. *)
C8_Witness ==
  /\ Done
  /\ Len(events) = 1
  /\ events[1].timestamp % MicrosPerMinute = 0
  /\ window_size = 2

(* The point of minute t computed from scratch, nothing carried over. *)
FreshWindow(t) == filter_events(events, t - window_size * MicrosPerMinute, t)
FreshAverage(t) == IF FreshWindow(t) /= <<>> THEN mean_of(FreshWindow(t)) ELSE py_int(0)
FreshPoint(t) == [date |-> strftime(t), average_delivery_time |-> normalize(FreshAverage(t))]
MinuteOfPoint(k) == earliest_of(events) + (k - 1) * MicrosPerMinute

(* C9: when a point has been appended, the carried average_delivery_time and
   current_events_in_window are those of that minute's window, and the series
   so far equals the series recomputed from scratch at every minute. *)
C9_NoStalePoint ==
  moving_averages /= <<>> =>
    /\ average_delivery_time = FreshAverage(MinuteOfPoint(Len(moving_averages)))
    /\ current_events_in_window = FreshWindow(MinuteOfPoint(Len(moving_averages)))
    /\ \A k \in DOMAIN moving_averages : moving_averages[k] = FreshPoint(MinuteOfPoint(k))

(* C9 witness: a finished run in which one non-empty window equals the one
   before it (the mean was not recomputed) and a later window became empty. *)
C9_Witness ==
  /\ Done
  /\ \E k \in 2..Len(moving_averages) :
       /\ FreshWindow(MinuteOfPoint(k)) /= <<>>
       /\ FreshWindow(MinuteOfPoint(k)) = FreshWindow(MinuteOfPoint(k - 1))
  /\ \E k \in 2..Len(moving_averages) :
       /\ FreshWindow(MinuteOfPoint(k)) = <<>>
       /\ FreshWindow(MinuteOfPoint(k - 1)) /= <<>>

Permutations(evs) ==
  {[i \in DOMAIN evs |-> evs[f[i]]] :
     f \in {g \in [DOMAIN evs -> DOMAIN evs] : \A a, b \in DOMAIN evs : g[a] = g[b] => a = b}}

====
